---- MODULE Spec2Model ----
(***************************************************************************)
(* HARDY (alignment-service/aligner.py): hierarchical anchored alignment   *)
(* of transcript segments onto forced-alignment word timings.              *)
(*                                                                         *)
(* One call of align_segments_hardy is modelled as a state machine that    *)
(* walks the four levels of the pipeline: find_anchors (one loop iteration *)
(* per step), segment_into_regions, the orchestrator's slot filling,       *)
(* align_region (one loop iteration per step), the safety net, and         *)
(* validate_and_fix_alignment (forward pass one segment per step, then the *)
(* audio-duration cap).                                                    *)
(*                                                                         *)
(* Conventions                                                             *)
(*  - indices are the 0-based indices of the Python code; a Python list is *)
(*    a TLA+ sequence whose element k is Seq[k + 1];                        *)
(*  - Optional[X] is a sequence: <<>> for None, <<x>> for a value;          *)
(*  - word times (float seconds in the code) are counted in ticks of half  *)
(*    a millisecond, so int(t * 1000) is a real truncation;                *)
(*  - confidences and similarity scores are integers in units of 1/10000;  *)
(*  - a text is the sequence of its whitespace-separated tokens;           *)
(*  - a method string is the sequence of its tags, string concatenation    *)
(*    being Append;                                                        *)
(*  - float products followed by int() are computed exactly and truncated  *)
(*    toward zero;                                                         *)
(*  - fuzzywuzzy and difflib are outside the repository: the scores they   *)
(*    produce for the windows of one find_best_match call are an input of  *)
(*    that call, drawn from ScorerAnswers in the pipeline and from         *)
(*    ScoreTables when find_best_match is called on its own.               *)
(***************************************************************************)
EXTENDS Integers, Sequences, FiniteSets, TLC

\* ------------------------------------------------------------------------
\* Bounds of the model
\* ------------------------------------------------------------------------
MaxSegs == 3
MaxWords == 2
MaxMatchWords == 3

\* ------------------------------------------------------------------------
\* Configuration (aligner.py 36-52)
\* ------------------------------------------------------------------------
ANCHOR_MIN_CONFIDENCE == 7500
ANCHOR_MIN_WORDS == 2
ANCHOR_MAX_WORDS == 20
TIME_WINDOW_SECONDS == 30
MIN_SEARCH_BUFFER == 50
MIN_SEGMENT_CONFIDENCE == 4000
MAX_OVERLAP_MS == 2000
MIN_MS_PER_WORD == 20
MAX_MS_PER_WORD == 800
EARLY_EXIT_THRESHOLD == 9500
QUICK_SCORE_MIN == 35
FALLBACK_MS_PER_WORD == 150
FALLBACK_GAP_MS == 50
FALLBACK_CONFIDENCE == 3000
MIN_INTERP_MS == 50

TicksPerMs == 2

\* ------------------------------------------------------------------------
\* Arithmetic helpers
\* ------------------------------------------------------------------------
Max2(a, b) == IF a >= b THEN a ELSE b
Min2(a, b) == IF a <= b THEN a ELSE b

\* int(x) of Python for the exact quotient a / b, b > 0: truncation toward 0
TruncDiv(a, b) == IF a >= 0 THEN a \div b ELSE -((-a) \div b)

\* int(t * 1000) for a non-negative time t given in ticks
ToMs(t) == t \div TicksPerMs

\* conf * 0.9, conf * 0.8 on the 1/10000 scale
TimesTenths(conf, tenths) == (conf * tenths) \div 10

\* ------------------------------------------------------------------------
\* Text (aligner.py 141-149)
\* ------------------------------------------------------------------------
PunctTokens == {"?!"}

\* normalize_text: punctuation removed, whitespace collapsed; a token made
\* of punctuation only disappears
normalize_text(text) == SelectSeq(text, LAMBDA t : t \notin PunctTokens)

\* len(text.split())
WordCount(text) == Len(text)

\* ------------------------------------------------------------------------
\* Inputs
\* ------------------------------------------------------------------------
SegmentPool ==
    { [speaker_id |-> "A", text |-> <<"hello", "world">>, start_ms |-> 0,     end_ms |-> 1000],
      [speaker_id |-> "B", text |-> <<"hi">>,             start_ms |-> 40000, end_ms |-> 41000],
      [speaker_id |-> "C", text |-> <<>>,                 start_ms |-> 0,     end_ms |-> 0] }

\* a word of the forced aligner, relative to the start of the previous word
WordShapes ==
    { [gap |-> 200,  dur |-> 201],
      [gap |-> 0,    dur |-> 0],
      [gap |-> 6000, dur |-> 200],
      [gap |-> 0,    dur |-> 6000] }

RECURSIVE WordsFromShapes(_, _)
WordsFromShapes(shapes, prevStart) ==
    IF shapes = <<>> THEN <<>>
    ELSE LET s == prevStart + Head(shapes).gap
         IN  <<[start |-> s, end |-> s + Head(shapes).dur]>>
             \o WordsFromShapes(Tail(shapes), s)

SeqsUpTo(S, n) == UNION { [1..k -> S] : k \in 0..n }

InputSegments == SeqsUpTo(SegmentPool, MaxSegs)
InputWords == { WordsFromShapes(sh, 0) : sh \in SeqsUpTo(WordShapes, MaxWords) }

\* ------------------------------------------------------------------------
\* The scorer's answers for one find_best_match call
\* ------------------------------------------------------------------------
Skip == [quick |-> 20, score |-> 1500]
Low == [quick |-> 50, score |-> 3000]
Good == [quick |-> 90, score |-> 8000]
Exact == [quick |-> 100, score |-> 10000]

NoWindow == <<-1, -1>>
Windows == { <<i, size>> \in (0..(MaxWords - 1)) \X (1..MaxWords) : i + size <= MaxWords }

\* every window answers base, except the window hit, which answers level;
\* in the last one every window is an exact match
ScorerAnswers ==
    [hit : Windows \cup {NoWindow}, level : {Low, Good}, base : {Skip, Low}]
    \cup {[hit |-> NoWindow, level |-> Exact, base |-> Exact]}

\* a score just over the early-exit threshold
Near == [quick |-> 96, score |-> 9600]

Levels == {Skip, Low, Good, Near, Exact}

\* the windows of a list of n words
WindowsOf(n) == { <<i, size>> \in (0..(n - 1)) \X (1..n) : i + size <= n }

\* one answer per window: the scorer of a call is any function of the window
ScoreTables(n) == { [table |-> f] : f \in [WindowsOf(n) -> Levels] }

Answer(sc, i, size) ==
    IF "table" \in DOMAIN sc THEN sc.table[<<i, size>>]
    ELSE IF sc.hit = <<i, size>> THEN sc.level ELSE sc.base

VARIABLES
    segments,               \* input: List[Segment]
    words,                  \* input: List[Word]
    pc,                     \* position in align_segments_hardy
    audio_duration_ms,
    anchors,                \* find_anchors: anchors
    last_anchor_word_idx,   \* find_anchors: last_anchor_word_idx
    seg_idx,                \* loop index of the running loop over segments
    regions,                \* segment_into_regions result
    aligned_all,            \* orchestrator slots, <<>> for None
    region_idx,             \* orchestrator: index of the region being aligned
    region_aligned,         \* align_region: aligned
    current_word_idx,       \* align_region: current_word_idx
    fixed,                  \* validate_and_fix_alignment: fixed
    result,                 \* the returned list, <<>> until the return
    region_match,           \* align_region: match; the value find_best_match returned
    call,                   \* the arguments of a direct call of one function
    ret                     \* what the direct call returned

vars == <<segments, words, pc, audio_duration_ms, anchors, last_anchor_word_idx,
          seg_idx, regions, aligned_all, region_idx, region_aligned,
          current_word_idx, fixed, result, region_match, call, ret>>

\* ------------------------------------------------------------------------
\* find_word_at_time (aligner.py 314-321); time_ms is time_sec * 1000
\* ------------------------------------------------------------------------
find_word_at_time(ws, time_ms) ==
    IF ws = <<>> THEN 0
    ELSE LET hits == { i \in 0..(Len(ws) - 1) : ws[i + 1].start >= time_ms * TicksPerMs }
         IN  IF hits = {} THEN Len(ws) - 1
             ELSE LET i == CHOOSE h \in hits : \A g \in hits : h <= g
                  IN  Max2(0, i - 1)

\* ------------------------------------------------------------------------
\* find_best_match (aligner.py 420-491)
\* ------------------------------------------------------------------------
\* sorted(set([...])) of lines 446-457, as an ascending sequence
WindowSizeSet(expected) ==
    { expected, Max2(1, expected - 1), expected + 1, Max2(1, expected - 2),
      expected + 2, Max2(1, (expected * 7) \div 10) }

RECURSIVE SortedSeq(_)
SortedSeq(S) ==
    IF S = {} THEN <<>>
    ELSE LET m == CHOOSE x \in S : \A y \in S : x <= y
         IN  <<m>> \o SortedSeq(S \ {m})

window_sizes(expected) == SortedSeq(WindowSizeSet(expected))

\* range(search_start, search_end - window_size): the last start is missed
RECURSIVE VisitsShort(_, _, _)
VisitsShort(sizes, search_start, search_end) ==
    IF sizes = <<>> THEN <<>>
    ELSE LET size == Head(sizes)
             n == IF size <= 0 THEN 0 ELSE Max2(0, search_end - size - search_start)
         IN  [k \in 1..n |-> <<search_start + k - 1, size>>]
             \o VisitsShort(Tail(sizes), search_start, search_end)

\* the (window_size, i) pairs in the order the two nested loops visit them
RECURSIVE Visits(_, _, _)
Visits(sizes, search_start, search_end) ==
    IF sizes = <<>> THEN <<>>
    ELSE LET size == Head(sizes)
             n == IF size <= 0 THEN 0 ELSE Max2(0, search_end - size + 1 - search_start)
         IN  [k \in 1..n |-> <<search_start + k - 1, size>>]
             \o Visits(Tail(sizes), search_start, search_end)

MatchResult(ws, i, size, score) ==
    [start_idx |-> i,
     end_idx |-> i + size,
     start_ms |-> ToMs(ws[i + 1].start),
     end_ms |-> ToMs(ws[i + size].end),
     confidence |-> score]

\* score >= best_score: the last of equal scores wins
RECURSIVE ScanLastWins(_, _, _, _, _, _)
ScanLastWins(ws, visits, k, best, best_score, sc) ==
    IF k > Len(visits) THEN best
    ELSE LET i == visits[k][1]
             size == visits[k][2]
             a == Answer(sc, i, size)
         IN  IF a.quick < QUICK_SCORE_MIN
             THEN ScanLastWins(ws, visits, k + 1, best, best_score, sc)
             ELSE IF a.score >= best_score
                  THEN IF a.score >= EARLY_EXIT_THRESHOLD
                       THEN <<MatchResult(ws, i, size, a.score)>>
                       ELSE ScanLastWins(ws, visits, k + 1,
                                         <<MatchResult(ws, i, size, a.score)>>, a.score, sc)
                  ELSE ScanLastWins(ws, visits, k + 1, best, best_score, sc)

\* the body of the inner loop from visit k on; best is Optional[MatchResult]
RECURSIVE Scan(_, _, _, _, _, _)
Scan(ws, visits, k, best, best_score, sc) ==
    IF k > Len(visits) THEN best
    ELSE LET i == visits[k][1]
             size == visits[k][2]
             a == Answer(sc, i, size)
         IN  IF a.quick < QUICK_SCORE_MIN
             THEN Scan(ws, visits, k + 1, best, best_score, sc)
             ELSE IF a.score > best_score
                  THEN IF a.score >= EARLY_EXIT_THRESHOLD
                       THEN <<MatchResult(ws, i, size, a.score)>>
                       ELSE Scan(ws, visits, k + 1,
                                 <<MatchResult(ws, i, size, a.score)>>, a.score, sc)
                  ELSE Scan(ws, visits, k + 1, best, best_score, sc)

find_best_match(text, ws, search_start, search_end, expected_word_count, sc) ==
    IF search_start >= search_end \/ search_start >= Len(ws) THEN <<>>
    ELSE IF normalize_text(text) = <<>> THEN <<>>
    ELSE Scan(ws,
              Visits(window_sizes(expected_word_count), search_start,
                     Min2(search_end, Len(ws))),
              1, <<>>, 0, sc)

\* ------------------------------------------------------------------------
\* Init: the state at the call of align_segments_hardy(segments, words)
\* ------------------------------------------------------------------------
Init ==
    /\ segments \in InputSegments
    /\ words \in InputWords
    /\ pc = "start"
    /\ audio_duration_ms = 0
    /\ anchors = <<>>
    /\ last_anchor_word_idx = 0
    /\ seg_idx = 0
    /\ regions = <<>>
    /\ aligned_all = <<>>
    /\ region_idx = 0
    /\ region_aligned = <<>>
    /\ current_word_idx = 0
    /\ fixed = <<>>
    /\ result = <<>>
    /\ region_match = <<>>
    /\ call = <<>>
    /\ ret = <<>>

\* ------------------------------------------------------------------------
\* align_segments_hardy, lines 737-748: input check and audio duration
\* ------------------------------------------------------------------------
\* int(words[-1].end * 1000) if words else 0 (lines 347, 397, 740)
AudioEndMs(ws) == IF ws # <<>> THEN ToMs(ws[Len(ws)].end) ELSE 0

\* line 737: not segments or not words
InputsEmptyAnd(segs, ws) == segs = <<>> /\ ws = <<>>

InputsEmpty(segs, ws) == segs = <<>> \/ ws = <<>>

Start ==
    /\ pc = "start"
    /\ IF InputsEmpty(segments, words)
       THEN /\ pc' = "done"
            /\ result' = <<>>
            /\ UNCHANGED audio_duration_ms
       ELSE /\ pc' = "find_anchors"
            /\ audio_duration_ms' = AudioEndMs(words)
            /\ UNCHANGED result
    /\ UNCHANGED <<segments, words, anchors, last_anchor_word_idx, seg_idx, regions,
                   aligned_all, region_idx, region_aligned, current_word_idx, fixed,
                   region_match, call, ret>>

\* ------------------------------------------------------------------------
\* find_anchors (aligner.py 222-311): one iteration of the loop of line 237
\* ------------------------------------------------------------------------
\* line 258 left out: the search does not start after the last anchor
AnchorSearchStartAnywhere(segment) ==
    find_word_at_time(words, Max2(0, segment.start_ms - TIME_WINDOW_SECONDS * 1000))

AnchorSearchStart(segment) ==
    LET window_start_ms == Max2(0, segment.start_ms - TIME_WINDOW_SECONDS * 1000)
    IN  Max2(find_word_at_time(words, window_start_ms), last_anchor_word_idx)

AnchorSearchEnd(segment, word_start_idx) ==
    LET window_end_ms == Min2(audio_duration_ms, segment.end_ms + TIME_WINDOW_SECONDS * 1000)
        word_end_idx == find_word_at_time(words, window_end_ms)
        word_count == WordCount(segment.text)
    IN  IF word_end_idx - word_start_idx < word_count + 10
        THEN Min2(Len(words), word_start_idx + word_count + 20)
        ELSE word_end_idx

MakeAnchor(idx, match) ==
    [segment_idx |-> idx,
     word_start_idx |-> match.start_idx,
     word_end_idx |-> match.end_idx,
     confidence |-> match.confidence,
     start_ms |-> match.start_ms,
     end_ms |-> match.end_ms]

FindAnchorsStep ==
    /\ pc = "find_anchors"
    /\ seg_idx < Len(segments)
    /\ LET segment == segments[seg_idx + 1]
           word_count == WordCount(segment.text)
       IN  IF word_count < ANCHOR_MIN_WORDS \/ word_count > ANCHOR_MAX_WORDS
           THEN UNCHANGED <<anchors, last_anchor_word_idx>>
           ELSE \E sc \in ScorerAnswers :
                  LET word_start_idx == AnchorSearchStart(segment)
                      word_end_idx == AnchorSearchEnd(segment, word_start_idx)
                      match == find_best_match(segment.text, words, word_start_idx,
                                               word_end_idx, word_count, sc)
                  IN  IF match # <<>> /\ match[1].confidence >= ANCHOR_MIN_CONFIDENCE
                      THEN /\ anchors' = Append(anchors, MakeAnchor(seg_idx, match[1]))
                           /\ last_anchor_word_idx' = match[1].end_idx
                      ELSE UNCHANGED <<anchors, last_anchor_word_idx>>
    /\ seg_idx' = seg_idx + 1
    /\ UNCHANGED <<segments, words, pc, audio_duration_ms, regions, aligned_all,
                   region_idx, region_aligned, current_word_idx, fixed, result,
                   region_match, call, ret>>

\* ------------------------------------------------------------------------
\* segment_into_regions (aligner.py 329-412)
\* ------------------------------------------------------------------------
\* segs[a : b] of Python, 0 <= a
Slice(s, a, b) == SubSeq(s, a + 1, Min2(b, Len(s)))

Region(segs, first, last, wstart, wend, tstart, tend) ==
    [segments |-> segs,
     start_segment_idx |-> first,
     end_segment_idx |-> last,
     word_start_idx |-> wstart,
     word_end_idx |-> wend,
     time_start_ms |-> tstart,
     time_end_ms |-> tend]

\* lines 353-365
RegionBeforeFirst(segs, anch) ==
    IF anch[1].segment_idx > 0
    THEN <<Region(Slice(segs, 0, anch[1].segment_idx), 0, anch[1].segment_idx - 1,
                  0, anch[1].word_start_idx, 0, anch[1].start_ms)>>
    ELSE <<>>

\* the slice and the range of a middle region start at the anchor itself
RECURSIVE RegionsBetweenFromAnchor(_, _, _)
RegionsBetweenFromAnchor(segs, anch, i) ==
    IF i > Len(anch) - 1 THEN <<>>
    ELSE LET curr_anchor == anch[i]
             next_anchor == anch[i + 1]
         IN  (IF next_anchor.segment_idx > curr_anchor.segment_idx + 1
              THEN <<Region(Slice(segs, curr_anchor.segment_idx, next_anchor.segment_idx),
                            curr_anchor.segment_idx, next_anchor.segment_idx - 1,
                            curr_anchor.word_end_idx, next_anchor.word_start_idx,
                            curr_anchor.end_ms, next_anchor.start_ms)>>
              ELSE <<>>)
             \o RegionsBetweenFromAnchor(segs, anch, i + 1)

\* lines 367-385, from pair i (1-based) on
RECURSIVE RegionsBetween(_, _, _)
RegionsBetween(segs, anch, i) ==
    IF i > Len(anch) - 1 THEN <<>>
    ELSE LET curr_anchor == anch[i]
             next_anchor == anch[i + 1]
         IN  (IF next_anchor.segment_idx > curr_anchor.segment_idx + 1
              THEN <<Region(Slice(segs, curr_anchor.segment_idx + 1, next_anchor.segment_idx),
                            curr_anchor.segment_idx + 1, next_anchor.segment_idx - 1,
                            curr_anchor.word_end_idx, next_anchor.word_start_idx,
                            curr_anchor.end_ms, next_anchor.start_ms)>>
              ELSE <<>>)
             \o RegionsBetween(segs, anch, i + 1)

\* the region after the last anchor starts one segment late
RegionAfterLastLate(segs, ws, anch) ==
    LET last == anch[Len(anch)]
    IN  IF last.segment_idx < Len(segs) - 1
        THEN <<Region(Slice(segs, last.segment_idx + 2, Len(segs)),
                      last.segment_idx + 2, Len(segs) - 1,
                      last.word_end_idx, Len(ws) - 1,
                      last.end_ms, AudioEndMs(ws))>>
        ELSE <<>>

\* lines 387-399
RegionAfterLast(segs, ws, anch) ==
    LET last == anch[Len(anch)]
    IN  IF last.segment_idx < Len(segs) - 1
        THEN <<Region(Slice(segs, last.segment_idx + 1, Len(segs)),
                      last.segment_idx + 1, Len(segs) - 1,
                      last.word_end_idx, Len(ws) - 1,
                      last.end_ms, AudioEndMs(ws))>>
        ELSE <<>>

segment_into_regions(segs, ws, anch) ==
    IF anch = <<>>
    THEN <<Region(segs, 0, Len(segs) - 1, 0, Len(ws) - 1, 0, AudioEndMs(ws))>>
    ELSE RegionBeforeFirst(segs, anch)
         \o RegionsBetween(segs, anch, 1)
         \o RegionAfterLast(segs, ws, anch)

\* ------------------------------------------------------------------------
\* align_segments_hardy, lines 750-765: regions, slots, anchored segments
\* ------------------------------------------------------------------------
AlignedSegment(speaker_id, text, start_ms, end_ms, confidence, method) ==
    [speaker_id |-> speaker_id,
     text |-> text,
     start_ms |-> start_ms,
     end_ms |-> end_ms,
     confidence |-> confidence,
     method |-> method]

AnchorSegment(segs, anchor) ==
    AlignedSegment(segs[anchor.segment_idx + 1].speaker_id,
                   segs[anchor.segment_idx + 1].text,
                   anchor.start_ms, anchor.end_ms, anchor.confidence, <<"anchor">>)

\* [None] * len(segments), then the loop of lines 757-765
PlaceAnchors(segs, anch) ==
    [k \in 1..Len(segs) |->
        LET here == { a \in 1..Len(anch) : anch[a].segment_idx = k - 1 }
        IN  IF here = {} THEN <<>>
            ELSE <<AnchorSegment(segs, anch[CHOOSE a \in here : \A b \in here : a >= b])>>]

SegmentIntoRegions ==
    /\ pc = "find_anchors"
    /\ seg_idx >= Len(segments)
    /\ regions' = segment_into_regions(segments, words, anchors)
    /\ aligned_all' = PlaceAnchors(segments, anchors)
    /\ region_idx' = 0
    /\ seg_idx' = 0
    /\ region_aligned' = <<>>
    /\ current_word_idx' = IF regions' # <<>> THEN regions'[1].word_start_idx ELSE 0
    /\ pc' = "align_regions"
    /\ UNCHANGED <<segments, words, audio_duration_ms, anchors, last_anchor_word_idx,
                   fixed, result,
                   region_match, call, ret>>

\* ------------------------------------------------------------------------
\* align_region (aligner.py 494-591): one iteration of the loop of line 515
\* ------------------------------------------------------------------------
RECURSIVE SumWordCounts(_, _)
\* sum(len(s.text.split()) for s in segs[:n])
SumWordCounts(segs, n) ==
    IF n <= 0 THEN 0 ELSE WordCount(segs[n].text) + SumWordCounts(segs, n - 1)

RegionSearchStart(region, cur) == Max2(region.word_start_idx, cur - 5)

RegionSearchEnd(region, cur, expected_words) ==
    Min2(region.word_end_idx + 1, cur + expected_words * 3 + MIN_SEARCH_BUFFER)

\* lines 535-544
MatchedSegment(segment, match) ==
    AlignedSegment(segment.speaker_id, segment.text, match.start_ms, match.end_ms,
                   match.confidence, <<"aligned">>)

\* line 568 left out: the start is not pulled 50 ms before the end
InterpolatedSegmentUnclamped(region, i, match) ==
    LET segment == region.segments[i + 1]
        region_duration == region.time_end_ms - region.time_start_ms
        segment_count == Len(region.segments)
        total_words_in_region == SumWordCounts(region.segments, segment_count)
        words_before == SumWordCounts(region.segments, i)
        segment_words == WordCount(segment.text)
        start_off == IF total_words_in_region > 0
                     THEN TruncDiv(words_before * region_duration, total_words_in_region)
                     ELSE TruncDiv(i * region_duration, Max2(segment_count, 1))
        end_off == IF total_words_in_region > 0
                   THEN TruncDiv((words_before + segment_words) * region_duration,
                                 total_words_in_region)
                   ELSE TruncDiv((i + 1) * region_duration, Max2(segment_count, 1))
        interp_end == Min2(region.time_start_ms + end_off, region.time_end_ms)
    IN  AlignedSegment(segment.speaker_id, segment.text,
                       region.time_start_ms + start_off, interp_end,
                       IF match # <<>> THEN match[1].confidence ELSE 0,
                       <<"interpolated">>)

\* lines 551-579; i is the 0-based position of segment in region.segments
InterpolatedSegment(region, i, match) ==
    LET segment == region.segments[i + 1]
        region_duration == region.time_end_ms - region.time_start_ms
        segment_count == Len(region.segments)
        total_words_in_region == SumWordCounts(region.segments, segment_count)
        words_before == SumWordCounts(region.segments, i)
        segment_words == WordCount(segment.text)
        start_off == IF total_words_in_region > 0
                     THEN TruncDiv(words_before * region_duration, total_words_in_region)
                     ELSE TruncDiv(i * region_duration, Max2(segment_count, 1))
        end_off == IF total_words_in_region > 0
                   THEN TruncDiv((words_before + segment_words) * region_duration,
                                 total_words_in_region)
                   ELSE TruncDiv((i + 1) * region_duration, Max2(segment_count, 1))
        interp_end == Min2(region.time_start_ms + end_off, region.time_end_ms)
        interp_start == Min2(region.time_start_ms + start_off, interp_end - MIN_INTERP_MS)
    IN  AlignedSegment(segment.speaker_id, segment.text, interp_start, interp_end,
                       IF match # <<>> THEN match[1].confidence ELSE 0,
                       <<"interpolated">>)

AlignRegionStep ==
    /\ pc = "align_regions"
    /\ region_idx < Len(regions)
    /\ seg_idx < Len(regions[region_idx + 1].segments)
    /\ \E sc \in ScorerAnswers :
         LET region == regions[region_idx + 1]
             segment == region.segments[seg_idx + 1]
             expected_words == WordCount(segment.text)
             found == find_best_match(segment.text, words,
                                      RegionSearchStart(region, current_word_idx),
                                      RegionSearchEnd(region, current_word_idx, expected_words),
                                      expected_words, sc)
         IN  /\ region_match' = found
             /\ IF found # <<>> /\ found[1].confidence >= MIN_SEGMENT_CONFIDENCE
                THEN /\ region_aligned' = Append(region_aligned,
                                                 MatchedSegment(segment, found[1]))
                     /\ current_word_idx' = found[1].end_idx
                ELSE /\ region_aligned' = Append(region_aligned,
                                                 InterpolatedSegment(region, seg_idx, found))
                     /\ UNCHANGED current_word_idx
    /\ seg_idx' = seg_idx + 1
    /\ UNCHANGED <<segments, words, pc, audio_duration_ms, anchors, last_anchor_word_idx,
                   regions, aligned_all, region_idx, fixed, result, call, ret>>

\* ------------------------------------------------------------------------
\* align_segments_hardy, lines 771-774: the region's segments go to the slots
\* ------------------------------------------------------------------------
\* global_idx = region.start_segment_idx + j + 1
WriteSlotsShifted(slots, region, aligned) ==
    [k \in 1..Len(slots) |->
        LET j == (k - 1) - region.start_segment_idx - 1
        IN  IF j >= 0 /\ j < Len(aligned) /\ slots[k] = <<>>
            THEN <<aligned[j + 1]>>
            ELSE slots[k]]

WriteSlots(slots, region, aligned) ==
    [k \in 1..Len(slots) |->
        LET j == (k - 1) - region.start_segment_idx
        IN  IF j >= 0 /\ j < Len(aligned) /\ slots[k] = <<>>
            THEN <<aligned[j + 1]>>
            ELSE slots[k]]

WriteRegion ==
    /\ pc = "align_regions"
    /\ region_idx < Len(regions)
    /\ seg_idx >= Len(regions[region_idx + 1].segments)
    /\ aligned_all' = WriteSlots(aligned_all, regions[region_idx + 1], region_aligned)
    /\ region_idx' = region_idx + 1
    /\ seg_idx' = 0
    /\ region_aligned' = <<>>
    /\ region_match' = <<>>
    /\ current_word_idx' = IF region_idx + 1 < Len(regions)
                           THEN regions[region_idx + 2].word_start_idx
                           ELSE 0
    /\ UNCHANGED <<segments, words, pc, audio_duration_ms, anchors, last_anchor_word_idx,
                   regions, fixed, result, call, ret>>

\* ------------------------------------------------------------------------
\* align_segments_hardy, lines 776-786: the safety net
\* ------------------------------------------------------------------------
OriginalSegment(segment) ==
    AlignedSegment(segment.speaker_id, segment.text, segment.start_ms, segment.end_ms,
                   0, <<"original">>)

FillGaps ==
    /\ pc = "align_regions"
    /\ region_idx >= Len(regions)
    /\ aligned_all' = [k \in 1..Len(aligned_all) |->
                          IF aligned_all[k] = <<>>
                          THEN <<OriginalSegment(segments[k])>>
                          ELSE aligned_all[k]]
    /\ seg_idx' = 0
    /\ fixed' = <<>>
    /\ pc' = "validate"
    /\ UNCHANGED <<segments, words, audio_duration_ms, anchors, last_anchor_word_idx,
                   regions, region_idx, region_aligned, current_word_idx, result,
                   region_match, call, ret>>

\* ------------------------------------------------------------------------
\* validate_and_fix_alignment (aligner.py 599-710)
\* ------------------------------------------------------------------------
\* the monotonicity fix left out
MonotonicityFixNone(seg, i, fx) == seg

\* the segment is moved but keeps its end
MonotonicityFixKeepsEnd(seg, i, fx) ==
    IF i > 0 /\ seg.start_ms < fx[Len(fx)].end_ms - MAX_OVERLAP_MS
    THEN AlignedSegment(seg.speaker_id, seg.text, fx[Len(fx)].end_ms, seg.end_ms,
                        TimesTenths(seg.confidence, 9), Append(seg.method, "_fixed"))
    ELSE seg

\* lines 619-631; fx is the list fixed so far
MonotonicityFix(seg, i, fx) ==
    IF i > 0 /\ seg.start_ms < fx[Len(fx)].end_ms - MAX_OVERLAP_MS
    THEN LET new_start == fx[Len(fx)].end_ms
             duration == seg.end_ms - seg.start_ms
         IN  AlignedSegment(seg.speaker_id, seg.text, new_start, new_start + duration,
                            TimesTenths(seg.confidence, 9), Append(seg.method, "_fixed"))
    ELSE seg

\* the fallback appends a tag to the old method instead of replacing it
DurationFallbackTagged(seg, i, fx) ==
    LET duration == seg.end_ms - seg.start_ms
        word_count == Max2(WordCount(seg.text), 1)
    IN  IF duration < MIN_MS_PER_WORD * word_count \/ duration > MAX_MS_PER_WORD * word_count
        THEN LET estimated_duration == word_count * FALLBACK_MS_PER_WORD
                 new_start == IF i > 0 THEN fx[Len(fx)].end_ms + FALLBACK_GAP_MS
                              ELSE seg.start_ms
             IN  AlignedSegment(seg.speaker_id, seg.text, new_start,
                                new_start + estimated_duration,
                                FALLBACK_CONFIDENCE, Append(seg.method, "_fallback"))
        ELSE seg

\* the fallback penalty added instead of assigned
DurationFallbackAdds(seg, i, fx) ==
    LET duration == seg.end_ms - seg.start_ms
        word_count == Max2(WordCount(seg.text), 1)
    IN  IF duration < MIN_MS_PER_WORD * word_count \/ duration > MAX_MS_PER_WORD * word_count
        THEN LET estimated_duration == word_count * FALLBACK_MS_PER_WORD
                 new_start == IF i > 0 THEN fx[Len(fx)].end_ms + FALLBACK_GAP_MS
                              ELSE seg.start_ms
             IN  AlignedSegment(seg.speaker_id, seg.text, new_start,
                                new_start + estimated_duration,
                                seg.confidence + FALLBACK_CONFIDENCE, <<"duration_fallback">>)
        ELSE seg

\* lines 633-662
DurationFallback(seg, i, fx) ==
    LET duration == seg.end_ms - seg.start_ms
        word_count == Max2(WordCount(seg.text), 1)
    IN  IF duration < MIN_MS_PER_WORD * word_count \/ duration > MAX_MS_PER_WORD * word_count
        THEN LET estimated_duration == word_count * FALLBACK_MS_PER_WORD
                 new_start == IF i > 0 THEN fx[Len(fx)].end_ms + FALLBACK_GAP_MS
                              ELSE seg.start_ms
             IN  AlignedSegment(seg.speaker_id, seg.text, new_start,
                                new_start + estimated_duration,
                                FALLBACK_CONFIDENCE, <<"duration_fallback">>)
        ELSE seg

\* one iteration of the loop of line 618
ValidateStep ==
    /\ pc = "validate"
    /\ seg_idx < Len(aligned_all)
    /\ fixed' = Append(fixed,
                       DurationFallback(MonotonicityFix(aligned_all[seg_idx + 1][1], seg_idx, fixed),
                                        seg_idx, fixed))
    /\ seg_idx' = seg_idx + 1
    /\ UNCHANGED <<segments, words, pc, audio_duration_ms, anchors, last_anchor_word_idx,
                   regions, aligned_all, region_idx, region_aligned, current_word_idx,
                   result,
                   region_match, call, ret>>

\* only the ends are scaled
ScaleSegmentEnds(seg, audio_ms, last_end) ==
    AlignedSegment(seg.speaker_id, seg.text,
                   seg.start_ms,
                   TruncDiv(seg.end_ms * audio_ms, last_end),
                   TimesTenths(seg.confidence, 8),
                   IF \A k \in 1..Len(seg.method) : seg.method[k] # "_scaled"
                   THEN Append(seg.method, "_scaled")
                   ELSE seg.method)

\* lines 683-697, for one segment
ScaleSegment(seg, audio_ms, last_end) ==
    AlignedSegment(seg.speaker_id, seg.text,
                   TruncDiv(seg.start_ms * audio_ms, last_end),
                   TruncDiv(seg.end_ms * audio_ms, last_end),
                   TimesTenths(seg.confidence, 8),
                   IF \A k \in 1..Len(seg.method) : seg.method[k] # "_scaled"
                   THEN Append(seg.method, "_scaled")
                   ELSE seg.method)

\* lines 699-708
ClampLast(fx, audio_ms) ==
    IF fx[Len(fx)].end_ms > audio_ms
    THEN [fx EXCEPT ![Len(fx)].end_ms = audio_ms]
    ELSE fx

\* the overflow test reads fixed[0] instead of fixed[-1]
CapAtAudioDurationFirst(fx, audio_ms) ==
    IF audio_ms > 0 /\ fx # <<>> /\ fx[1].end_ms > audio_ms
    THEN ClampLast([k \in 1..Len(fx) |-> ScaleSegment(fx[k], audio_ms, fx[Len(fx)].end_ms)],
                   audio_ms)
    ELSE fx

\* lines 666-710
CapAtAudioDuration(fx, audio_ms) ==
    IF audio_ms > 0 /\ fx # <<>> /\ fx[Len(fx)].end_ms > audio_ms
    THEN ClampLast([k \in 1..Len(fx) |-> ScaleSegment(fx[k], audio_ms, fx[Len(fx)].end_ms)],
                   audio_ms)
    ELSE fx

\* validate_and_fix_alignment returns, and align_segments_hardy with it
Return ==
    /\ pc = "validate"
    /\ seg_idx >= Len(aligned_all)
    /\ result' = CapAtAudioDuration(fixed, audio_duration_ms)
    /\ pc' = "done"
    /\ UNCHANGED <<segments, words, audio_duration_ms, anchors, last_anchor_word_idx,
                   seg_idx, regions, aligned_all, region_idx, region_aligned,
                   current_word_idx, fixed,
                   region_match, call, ret>>

Next ==
    \/ Start
    \/ FindAnchorsStep
    \/ SegmentIntoRegions
    \/ AlignRegionStep
    \/ WriteRegion
    \/ FillGaps
    \/ ValidateStep
    \/ Return

Spec == Init /\ [][Next]_vars

\* ------------------------------------------------------------------------
\* Properties of the returned list
\* ------------------------------------------------------------------------
\* align_segments_hardy has returned for non-empty inputs
Returned == pc = "done" /\ segments # <<>> /\ words # <<>>

Base(seg) == seg.method[1]
HasTag(seg, tag) == \E k \in 1..Len(seg.method) : seg.method[k] = tag
Bases(list) == { Base(list[k]) : k \in 1..Len(list) }

\* the cap of lines 669-697 scaled the list
Scaled == audio_duration_ms > 0 /\ fixed # <<>> /\ fixed[Len(fixed)].end_ms > audio_duration_ms

\* C1: the returned list has the length of the input and, position by
\* position, the speaker_id and the text of the input segment.
C1_Preservation ==
    Returned =>
        /\ Len(result) = Len(segments)
        /\ \A k \in 1..Len(segments) :
              /\ result[k].speaker_id = segments[k].speaker_id
              /\ result[k].text = segments[k].text

\* three segments of different texts, one anchored, one interpolated, and a
\* validator that changed something
C1_Witness ==
    /\ Returned
    /\ Len(result) = 3
    /\ segments[1].text # segments[2].text
    /\ segments[2].text # segments[3].text
    /\ "anchor" \in Bases(result)
    /\ "interpolated" \in Bases(result)
    /\ \E k \in 1..3 : HasTag(result[k], "_fixed") \/ HasTag(result[k], "_scaled")

\* C2: in the returned list each segment starts no earlier than 2000 ms
\* before the end of its predecessor.
C2_BoundedOverlap ==
    Returned =>
        \A k \in 1..(Len(result) - 1) :
            result[k + 1].start_ms >= result[k].end_ms - MAX_OVERLAP_MS

\* a segment that the forward pass pushed forward, in a list that was scaled
C2_Witness ==
    /\ Returned
    /\ Scaled
    /\ \E k \in 2..Len(result) :
          /\ HasTag(result[k], "_fixed")
          /\ aligned_all[k][1].start_ms < fixed[k - 1].end_ms - MAX_OVERLAP_MS

\* C3: in the returned list start times never decrease.
C3_StartsNonDecreasing ==
    Returned =>
        \A k \in 1..(Len(result) - 1) : result[k + 1].start_ms >= result[k].start_ms

DurationSane(seg) ==
    LET wc == Max2(WordCount(seg.text), 1)
        duration == seg.end_ms - seg.start_ms
    IN  MIN_MS_PER_WORD * wc <= duration /\ duration <= MAX_MS_PER_WORD * wc

\* C4: every returned segment has between 20 and 800 ms per word, or its
\* method is exactly duration_fallback.
C4_DurationSanity ==
    Returned =>
        \A k \in 1..Len(result) :
            DurationSane(result[k]) \/ result[k].method = <<"duration_fallback">>

\* C5 as claimed: the last returned segment ends no later than the audio
\* duration, whatever that duration is.
C5_AudioBoundAlways ==
    Returned => result[Len(result)].end_ms <= AudioEndMs(words)

\* C5 as amended: the last returned segment ends no later than the audio
\* duration when that duration is positive.
C5_AudioBound ==
    (Returned /\ AudioEndMs(words) > 0) =>
        result[Len(result)].end_ms <= AudioEndMs(words)

\* the forward pass left a duration fallback as last segment, beyond the
\* end of the audio
C5_Witness ==
    /\ Returned
    /\ Scaled
    /\ Len(result) >= 2
    /\ Base(result[Len(result)]) = "duration_fallback"
    /\ fixed[1].end_ms <= audio_duration_ms

\* C6: every returned confidence lies in [0, 1].
C6_ConfidenceRange ==
    Returned =>
        \A k \in 1..Len(result) :
            result[k].confidence >= 0 /\ result[k].confidence <= 10000

\* a scaled list with a match confidence that was penalised twice (0.9 for
\* the fix, 0.8 for the scaling) and a fallback confidence
C6_Witness ==
    /\ Returned
    /\ Scaled
    /\ \E k \in 1..Len(result) :
          HasTag(result[k], "_fixed") /\ result[k].confidence = (8000 * 9 * 8) \div 100
    /\ \E k \in 1..Len(result) :
          /\ Base(result[k]) = "duration_fallback"
          /\ result[k].confidence = (FALLBACK_CONFIDENCE * 8) \div 10

\* C7: consecutive anchors have increasing segment_idx and word spans that
\* do not overlap: a.word_end_idx <= b.word_start_idx < b.word_end_idx.
C7_AnchorsOrdered ==
    \A k \in 1..(Len(anchors) - 1) :
        /\ anchors[k].segment_idx < anchors[k + 1].segment_idx
        /\ anchors[k].word_end_idx <= anchors[k + 1].word_start_idx
        /\ anchors[k + 1].word_start_idx < anchors[k + 1].word_end_idx
        /\ anchors[k].word_end_idx < anchors[k + 1].word_end_idx

\* find_anchors returned two anchors, the second searched from a time hint
\* that lies before the first anchor's words
C7_Witness ==
    /\ pc = "align_regions"
    /\ Len(anchors) >= 2
    /\ \E k \in 1..(Len(anchors) - 1) :
          find_word_at_time(words,
              Max2(0, segments[anchors[k + 1].segment_idx + 1].start_ms
                      - TIME_WINDOW_SECONDS * 1000)) < anchors[k].word_end_idx

RegionRange(r) == r.start_segment_idx .. r.end_segment_idx
AnchoredIdxs == { anchors[k].segment_idx : k \in 1..Len(anchors) }
RegionsComputed == pc \in {"align_regions", "validate"} \/ Returned

\* C8: the regions have non-empty, pairwise disjoint inclusive segment
\* ranges in increasing order, each of the length of its slice, and the
\* ranges cover exactly the segments that are not anchored.
C8_RegionsPartition ==
    RegionsComputed =>
        /\ \A k \in 1..Len(regions) :
              /\ RegionRange(regions[k]) # {}
              /\ Len(regions[k].segments)
                    = regions[k].end_segment_idx - regions[k].start_segment_idx + 1
              /\ \A j \in 1..Len(regions[k].segments) :
                    regions[k].segments[j] = segments[regions[k].start_segment_idx + j]
        /\ \A k \in 1..(Len(regions) - 1) :
              regions[k].end_segment_idx < regions[k + 1].start_segment_idx
        /\ UNION { RegionRange(regions[k]) : k \in 1..Len(regions) }
              = (0..(Len(segments) - 1)) \ AnchoredIdxs

\* a region between two anchors
C8_Witness ==
    /\ pc = "align_regions"
    /\ Len(anchors) >= 2
    /\ \E k \in 1..Len(regions) :
          /\ regions[k].start_segment_idx = anchors[1].segment_idx + 1
          /\ regions[k].end_segment_idx = anchors[2].segment_idx - 1

\* C9: with no segment or no word the call returns the empty list and no
\* level has run.
C9_EmptyInput ==
    (pc = "done" /\ (segments = <<>> \/ words = <<>>)) =>
        /\ result = <<>>
        /\ anchors = <<>>
        /\ regions = <<>>
        /\ aligned_all = <<>>
        /\ fixed = <<>>

\* the call returned for words without segments
C9_Witness == pc = "done" /\ segments = <<>> /\ words # <<>>

BaseTags == {"anchor", "aligned", "interpolated", "original", "duration_fallback"}

AllowedMethods ==
    { <<b>> : b \in BaseTags }
    \cup { <<b, "_fixed">> : b \in BaseTags \ {"duration_fallback"} }
    \cup { <<b, "_scaled">> : b \in BaseTags }
    \cup { <<b, "_fixed", "_scaled">> : b \in BaseTags \ {"duration_fallback"} }

\* C10: a returned method is a base tag, then at most one _fixed, then at
\* most one _scaled, and duration_fallback is never followed by _fixed.
C10_Methods ==
    Returned => \A k \in 1..Len(result) : result[k].method \in AllowedMethods

\* a segment that was pushed forward and scaled, next to a scaled fallback
C10_Witness ==
    /\ Returned
    /\ \E k \in 1..Len(result) : Len(result[k].method) = 3
    /\ \E k \in 1..Len(result) : result[k].method = <<"duration_fallback", "_scaled">>

\* the slot of every anchor holds the anchor's record
AnchorSlotsKept ==
    \A a \in 1..Len(anchors) :
        aligned_all[anchors[a].segment_idx + 1] = <<AnchorSegment(segments, anchors[a])>>

\* C11: once every region is written no slot is empty, so no segment that
\* enters the validator and no returned segment has the method original, and
\* the slot of each anchor holds the anchor's record, method anchor, from the
\* placing of the anchors until the validator has run.
C11_NoEmptySlot ==
    /\ (pc = "align_regions" /\ region_idx >= Len(regions)) =>
          \A k \in 1..Len(aligned_all) : aligned_all[k] # <<>>
    /\ pc = "align_regions" => AnchorSlotsKept
    /\ (pc = "validate" \/ Returned) =>
          /\ Len(aligned_all) = Len(segments)
          /\ \A k \in 1..Len(aligned_all) : Base(aligned_all[k][1]) # "original"
          /\ \A k \in 1..Len(fixed) : Base(fixed[k]) # "original"
          /\ AnchorSlotsKept
    /\ Returned => \A k \in 1..Len(result) : Base(result[k]) # "original"

\* the validator starts on an anchor between two regions that were aligned
C11_Witness ==
    /\ pc = "validate"
    /\ seg_idx = 0
    /\ Len(anchors) = 1
    /\ Len(regions) = 2
    /\ anchors[1].segment_idx = 1
    /\ Base(aligned_all[1][1]) = "interpolated"
    /\ Base(aligned_all[3][1]) = "aligned"

JustMatched ==
    /\ pc = "align_regions"
    /\ region_match # <<>>
    /\ region_match[1].confidence >= MIN_SEGMENT_CONFIDENCE

\* C16: a span matched by align_region lies inside the half-open word range
\* [word_start_idx, word_end_idx) of its region and contains no word of an
\* anchor's span [word_start_idx, word_end_idx).
C16_MatchInsideRegion ==
    JustMatched =>
        LET region == regions[region_idx + 1]
            span == region_match[1].start_idx .. (region_match[1].end_idx - 1)
        IN  /\ span \subseteq region.word_start_idx .. (region.word_end_idx - 1)
            /\ \A a \in 1..Len(anchors) :
                  span \cap (anchors[a].word_start_idx .. (anchors[a].word_end_idx - 1)) = {}

\* segment k (1-based) entered the forward pass more than 2000 ms before the
\* end of the segment emitted before it
Overlaps(k) ==
    k > 1 /\ aligned_all[k][1].start_ms < fixed[k - 1].end_ms - MAX_OVERLAP_MS

\* the segment the claim describes for seg after prev
PushedAfter(seg, prev) ==
    [speaker_id |-> seg.speaker_id,
     text |-> seg.text,
     start_ms |-> prev.end_ms,
     end_ms |-> prev.end_ms + (seg.end_ms - seg.start_ms),
     confidence |-> (seg.confidence * 9) \div 10,
     method |-> seg.method \o <<"_fixed">>]

\* C17: in each iteration of the forward pass a segment after the first that
\* starts more than 2000 ms before the end of the last emitted segment is
\* moved to that end with its duration kept, its confidence times 0.9 and
\* _fixed appended; any other segment is left as it is; and the duration
\* check then sees this segment: it is emitted as it is when its duration is
\* sane and replaced by a duration_fallback otherwise.
C17_MonotonicityFix ==
    [][(pc = "validate" /\ seg_idx < Len(aligned_all)) =>
          LET seg == aligned_all[seg_idx + 1][1]
              stepped == IF Overlaps(seg_idx + 1)
                         THEN PushedAfter(seg, fixed[seg_idx])
                         ELSE seg
              emitted == fixed'[Len(fixed')]
          IN  /\ Len(fixed) = seg_idx
              /\ Len(fixed') = seg_idx + 1
              /\ SubSeq(fixed', 1, seg_idx) = fixed
              /\ IF DurationSane(stepped)
                 THEN emitted = stepped
                 ELSE emitted.method = <<"duration_fallback">>]_vars

\* the pass pushed one segment forward and left a later one, which starts
\* within 2000 ms of its predecessor's end, as it was
C17_Witness ==
    /\ pc = "validate"
    /\ Len(fixed) = 3
    /\ \E k \in 2..3 :
          /\ Overlaps(k)
          /\ fixed[k] = PushedAfter(aligned_all[k][1], fixed[k - 1])
          /\ fixed[k].end_ms - fixed[k].start_ms > 0
    /\ \E k \in 2..3 :
          /\ ~Overlaps(k)
          /\ aligned_all[k][1].start_ms < fixed[k - 1].end_ms
          /\ fixed[k] = aligned_all[k][1]

\* y is the integer part of x * num / den, den > 0
IsScaled(y, x, num, den) ==
    /\ y * den - x * num < den
    /\ x * num - y * den < den
    /\ (x >= 0 => y * den <= x * num)
    /\ (x <= 0 => y * den >= x * num)

\* C18: the returned list is the forward pass's list scaled if and only if
\* the audio duration is positive and the last segment of the forward pass
\* ends after it; then every segment has start and end times the ratio of
\* the audio duration to that last end, confidence times 0.8 and one _scaled
\* suffix; otherwise the forward pass's list is returned as it is and no
\* method contains _scaled.
C18_Scaling ==
    Returned =>
        IF audio_duration_ms > 0 /\ fixed[Len(fixed)].end_ms > audio_duration_ms
        THEN /\ Len(result) = Len(fixed)
             /\ \A k \in 1..Len(fixed) :
                   /\ IsScaled(result[k].start_ms, fixed[k].start_ms,
                               audio_duration_ms, fixed[Len(fixed)].end_ms)
                   /\ IsScaled(result[k].end_ms, fixed[k].end_ms,
                               audio_duration_ms, fixed[Len(fixed)].end_ms)
                   /\ result[k].confidence = (fixed[k].confidence * 8) \div 10
                   /\ result[k].method = fixed[k].method \o <<"_scaled">>
                   /\ result[k].speaker_id = fixed[k].speaker_id
                   /\ result[k].text = fixed[k].text
        ELSE /\ result = fixed
             /\ \A k \in 1..Len(result) : ~HasTag(result[k], "_scaled")

\* three segments were scaled by a ratio that moved the start of the second
\* and of the third
C18_Witness ==
    /\ Returned
    /\ Len(result) = 3
    /\ audio_duration_ms > 0
    /\ fixed[3].end_ms > audio_duration_ms
    /\ 0 < result[2].start_ms
    /\ result[2].start_ms < fixed[2].start_ms
    /\ result[3].start_ms < fixed[3].start_ms
    /\ result[3].end_ms = audio_duration_ms

\* the forward pass ended inside a positive audio duration and its list was
\* returned as it was
C18_WitnessUnscaled ==
    /\ Returned
    /\ Len(result) = 3
    /\ audio_duration_ms > 0
    /\ fixed[3].end_ms <= audio_duration_ms
    /\ \E k \in 1..3 : HasTag(result[k], "_fixed")

\* the records of the list that the interpolated branch emitted
Interpolated(list) == { j \in 1..Len(list) : list[j].method = <<"interpolated">> }

\* C19: each iteration of align_region emits one record; on the interpolated
\* branch current_word_idx stays as it was and, in a region of non-negative
\* time span, the record lasts at least 50 ms, ends no later than the
\* region and starts no earlier than the interpolated records emitted before
\* it in the region; on the matched branch current_word_idx becomes the
\* match's end_idx.
C19_Interpolation ==
    [][(/\ pc = "align_regions"
        /\ region_idx < Len(regions)
        /\ seg_idx < Len(regions[region_idx + 1].segments)) =>
          LET region == regions[region_idx + 1]
              emitted == region_aligned'[Len(region_aligned')]
          IN  /\ Len(region_aligned') = Len(region_aligned) + 1
              /\ SubSeq(region_aligned', 1, Len(region_aligned)) = region_aligned
              /\ IF emitted.method = <<"interpolated">>
                 THEN /\ current_word_idx' = current_word_idx
                      /\ region.time_end_ms - region.time_start_ms >= 0 =>
                            /\ emitted.end_ms - emitted.start_ms >= 50
                            /\ emitted.end_ms <= region.time_end_ms
                            /\ \A j \in Interpolated(region_aligned) :
                                  region_aligned[j].start_ms <= emitted.start_ms
                 ELSE /\ region_match' # <<>>
                      /\ current_word_idx' = region_match'[1].end_idx]_vars

\* after a matched segment that advanced current_word_idx, two segments
\* were interpolated at different starts in a region of positive time span
C19_Witness ==
    /\ pc = "align_regions"
    /\ region_idx < Len(regions)
    /\ regions[region_idx + 1].time_end_ms - regions[region_idx + 1].time_start_ms > 0
    /\ Len(region_aligned) = 3
    /\ region_aligned[1].method = <<"aligned">>
    /\ current_word_idx > regions[region_idx + 1].word_start_idx
    /\ Interpolated(region_aligned) = {2, 3}
    /\ region_aligned[2].start_ms < region_aligned[3].start_ms

\* ------------------------------------------------------------------------
\* find_word_at_time called on its own (aligner.py 314-321)
\* ------------------------------------------------------------------------
\* the times asked for, in ms: on, between, before and after word starts
ProbeTimes == {0, 50, 100, 200, 3000, 3100, 6100, 7000}

\* a non-empty word list and a time
InitWordAt ==
    /\ segments = <<>>
    /\ words \in InputWords \ {<<>>}
    /\ pc = "call"
    /\ audio_duration_ms = 0
    /\ anchors = <<>>
    /\ last_anchor_word_idx = 0
    /\ seg_idx = 0
    /\ regions = <<>>
    /\ aligned_all = <<>>
    /\ region_idx = 0
    /\ region_aligned = <<>>
    /\ current_word_idx = 0
    /\ fixed = <<>>
    /\ result = <<>>
    /\ region_match = <<>>
    /\ call \in [time_ms : ProbeTimes]
    /\ ret = <<>>

CallFindWordAtTime ==
    /\ pc = "call"
    /\ ret' = find_word_at_time(words, call.time_ms)
    /\ pc' = "returned"
    /\ UNCHANGED <<segments, words, audio_duration_ms, anchors, last_anchor_word_idx,
                   seg_idx, regions, aligned_all, region_idx, region_aligned,
                   current_word_idx, fixed, result, region_match, call>>

NextWordAt == CallFindWordAtTime

SpecWordAt == InitWordAt /\ [][NextWordAt]_vars

\* the indices of the words that start at or before time_ms
StartedBy(ws, time_ms) ==
    { i \in 0..(Len(ws) - 1) : ws[i + 1].start <= time_ms * TicksPerMs }

\* C15: for a non-empty word list with non-decreasing starts,
\* find_word_at_time returns the largest index whose start is at or before
\* the time, and 0 when no word has started; a word that starts exactly at
\* the time is counted.
C15_LargestStartedBy ==
    pc = "returned" =>
        LET S == StartedBy(words, call.time_ms)
        IN  IF S = {} THEN ret = 0
            ELSE ret \in S /\ \A i \in S : i <= ret

\* ------------------------------------------------------------------------
\* find_best_match called on its own (aligner.py 420-491)
\* ------------------------------------------------------------------------
\* word lists of one to MaxMatchWords words, 100 ms each
MatchWords ==
    { WordsFromShapes([k \in 1..n |-> [gap |-> 200, dur |-> 200]], 0) : n \in 1..MaxMatchWords }

\* the texts searched for; the last one is empty once normalized
MatchTexts == { <<"hi">>, <<"hello", "world">>, <<"?!">> }

\* fuzz.partial_ratio of an empty text is 0 for every window
ScoreTablesFor(text, n) ==
    IF normalize_text(text) = <<>>
    THEN { [table |-> [w \in WindowsOf(n) |-> Skip]] }
    ELSE ScoreTables(n)

\* the arguments of the call; expected_word_count is len(text.split()), as
\* at lines 249 and 516
InitMatch ==
    /\ segments = <<>>
    /\ words \in MatchWords
    /\ pc = "call"
    /\ audio_duration_ms = 0
    /\ anchors = <<>>
    /\ last_anchor_word_idx = 0
    /\ seg_idx = 0
    /\ regions = <<>>
    /\ aligned_all = <<>>
    /\ region_idx = 0
    /\ region_aligned = <<>>
    /\ current_word_idx = 0
    /\ fixed = <<>>
    /\ result = <<>>
    /\ region_match = <<>>
    /\ \E text \in MatchTexts, search_start \in 0..1,
          search_end \in (Len(words) - 1)..(Len(words) + 1) :
          \E sc \in ScoreTablesFor(text, Len(words)) :
             call = [text |-> text,
                     search_start |-> search_start,
                     search_end |-> search_end,
                     expected_word_count |-> WordCount(text),
                     sc |-> sc]
    /\ ret = <<>>

CallFindBestMatch ==
    /\ pc = "call"
    /\ ret' = find_best_match(call.text, words, call.search_start, call.search_end,
                              call.expected_word_count, call.sc)
    /\ pc' = "returned"
    /\ UNCHANGED <<segments, words, audio_duration_ms, anchors, last_anchor_word_idx,
                   seg_idx, regions, aligned_all, region_idx, region_aligned,
                   current_word_idx, fixed, result, region_match, call>>

NextMatch == CallFindBestMatch

SpecMatch == InitMatch /\ [][NextMatch]_vars

\* the candidate windows of the call: every size of the set, every start
\* from search_start to search_end - size, search_end cut to the word list
Candidates ==
    { <<i, size>> \in (0..Len(words)) \X WindowSizeSet(call.expected_word_count) :
        /\ call.search_start <= i
        /\ i <= Min2(call.search_end, Len(words)) - size }

ScoreOf(w) == call.sc.table[w].score

\* the candidates that pass the pre-filter
Passing == { w \in Candidates : call.sc.table[w].quick >= 35 }

\* the window that the call returned
ReturnedWindow == <<ret[1].start_idx, ret[1].end_idx - ret[1].start_idx>>

\* the call returned a passing candidate with its score, and none exactly
\* when no candidate passes
ReturnsPassing ==
    /\ (ret = <<>>) <=> (Passing = {})
    /\ ret # <<>> =>
          /\ ReturnedWindow \in Passing
          /\ ret[1].confidence = ScoreOf(ReturnedWindow)

\* v is visited before w: smaller sizes first, then smaller starts
VisitedBefore(v, w) == v[2] < w[2] \/ (v[2] = w[2] /\ v[1] < w[1])

\* C13 as claimed: the returned score is the maximum over the passing
\* candidates, and none is returned exactly when no candidate passes.
C13_GlobalMaximum ==
    pc = "returned" =>
        /\ ReturnsPassing
        /\ ret # <<>> => \A w \in Passing : ScoreOf(w) <= ret[1].confidence

\* C13 as amended: none is returned exactly when no candidate passes; when
\* no passing candidate scores 0.95 or more the returned score is the
\* maximum over the passing candidates; otherwise the first passing
\* candidate visited that scores 0.95 or more is returned.
C13_MaximumOrFirstExit ==
    pc = "returned" =>
        /\ ReturnsPassing
        /\ ret # <<>> =>
              IF \A w \in Passing : ScoreOf(w) < 9500
              THEN \A w \in Passing : ScoreOf(w) <= ret[1].confidence
              ELSE /\ ret[1].confidence >= 9500
                   /\ \A w \in Passing :
                         VisitedBefore(w, ReturnedWindow) => ScoreOf(w) < 9500

\* the call left at a score of 0.96 although a later window scores 1.0 and
\* an earlier one passed with less
C13_Witness ==
    /\ pc = "returned"
    /\ ret # <<>>
    /\ ret[1].confidence = 9600
    /\ \E w \in Passing : VisitedBefore(ReturnedWindow, w) /\ ScoreOf(w) = 10000
    /\ \E w \in Passing : VisitedBefore(w, ReturnedWindow) /\ ScoreOf(w) = 8000

\* the sizes in the order of the list of lines 448-455
ListedSizes(expected) ==
    <<expected, expected - 1, expected + 1, expected - 2, expected + 2,
      (expected * 7) \div 10>>

\* the first position of size in that list
ListedRank(size, expected) ==
    CHOOSE p \in 1..6 :
        /\ ListedSizes(expected)[p] = size
        /\ \A q \in 1..(p - 1) : ListedSizes(expected)[q] # size

ListedBefore(v, w, expected) ==
    \/ ListedRank(v[2], expected) < ListedRank(w[2], expected)
    \/ (v[2] = w[2] /\ v[1] < w[1])

\* the passing candidates that score as much as the returned window
Ties == { w \in Passing : ScoreOf(w) = ret[1].confidence }

\* C14 as claimed: among the candidates that share the best score the
\* returned one comes first in the order expected, expected-1, expected+1,
\* expected-2, expected+2, floor(0.7*expected) of sizes, then starts
\* ascending.
C14_ListedOrder ==
    (pc = "returned" /\ ret # <<>>
        /\ \A w \in Passing : ScoreOf(w) <= ret[1].confidence) =>
        \A w \in Ties : ~ListedBefore(w, ReturnedWindow, call.expected_word_count)

\* C14 as amended: among the candidates that score as much as the returned
\* window, the returned one comes first in the order of ascending sizes,
\* then ascending starts.
C14_AscendingOrder ==
    (pc = "returned" /\ ret # <<>>) =>
        \A w \in Ties : ~VisitedBefore(w, ReturnedWindow)

\* a window of one word was returned for a text of two words, in a tie at
\* the best score with a window of the expected size and with a later
\* window of its own size
C14_Witness ==
    /\ pc = "returned"
    /\ ret # <<>>
    /\ call.expected_word_count = 2
    /\ ReturnedWindow[2] = 1
    /\ \A w \in Passing : ScoreOf(w) <= ret[1].confidence
    /\ \E w \in Ties : w[2] = 2
    /\ \E w \in Ties : w[2] = 1 /\ w[1] > ReturnedWindow[1]
====
